---- MODULE Spec2Model ----
(***************************************************************************)
(* The sample scripts of the synx repository as one state machine.         *)
(*   examples/python/valid.py        fibonacci, is_prime, the main block   *)
(*   test.py                         calculate_fibonacci, is_prime, main   *)
(*   tests/files/python/valid/calculator.py     class Calculator           *)
(*   tests/files/python/invalid/bad_code.py     class badCalculator        *)
(* `prog' selects the script (or the function called directly) a behaviour *)
(* runs.  Python values are records tagged with their type.                *)
(***************************************************************************)
EXTENDS Integers, Sequences, FiniteSets, TLC

VARIABLES
    prog,      \* the script or function this behaviour runs
    pc,        \* position in that script
    n,         \* argument of a direct call: fibonacci(n), is_prime(n), ...
    fpc,       \* fibonacci(): "idle", "run" (a frame executes), "ret" (a frame returned)
    memo,      \* fibonacci(): the dict memo
    stack,     \* fibonacci(): the active fib_memo frames, innermost last
    retval,    \* fibonacci(): value returned by the fib_memo frame that just returned
    i,         \* loop variable of a main block
    out,       \* lines printed to standard output
    result,    \* value returned by the last call (None before any call returned)
    history,   \* Calculator / badCalculator: self.history
    lastOp,    \* calculators: name of the method called last
    arg,       \* calculators: the arguments of the last call
    returned,  \* calculators: the values the add/subtract calls returned, in call order
    queries,   \* Calculator: get_last_result calls made since the last add/subtract
    pos,       \* test.py: index of the next bracket token the parser reads
    depth      \* test.py: brackets open at pos

vars == <<prog, pc, n, fpc, memo, stack, retval, i, out, result, history,
          lastOp, arg, returned, queries, pos, depth>>

fibVars == <<fpc, memo, stack, retval>>
calcVars == <<history, lastOp, arg, returned, queries>>
parseVars == <<pos, depth>>

(***************************************************************************)
(* Bounds of the model.                                                    *)
(***************************************************************************)
MaxN == 12         \* direct calls fibonacci(n), calculate_fibonacci(n): n <= MaxN
MaxNeg == 2        \* ... and n >= -MaxNeg
MaxDepth == 24     \* fib_memo frames the model follows before it stops
MaxNum == 30       \* direct calls is_prime(num): -MaxNum <= num <= MaxNum
MaxArg == 1        \* Calculator: operands in -MaxArg..MaxArg
MaxCalls == 2      \* calculators: calls followed on one instance
MaxQueries == 2    \* Calculator: get_last_result calls followed in a row
MaxStrLen == 3     \* process_input: length of the strings passed

(***************************************************************************)
(* Python values.                                                          *)
(***************************************************************************)
None == [kind |-> "None"]
PyInt(v) == [kind |-> "int", v |-> v]
PyBool(b) == [kind |-> "bool", v |-> b]
\* a float with a finite decimal expansion: m / 10^f
PyFloat(m, f) == [kind |-> "float", m |-> m, f |-> f]
PyStr(s) == [kind |-> "str", s |-> s]
\* an exception propagating out of a call
Raise(e) == [kind |-> "raise", exc |-> e]

\* a printed line: the format string of the print call and the values it interpolates
Line(fmt, args) == [fmt |-> fmt, args |-> args]

Last(s) == s[Len(s)]
Pop(s) == SubSeq(s, 1, Len(s) - 1)

(***************************************************************************)
(* valid.py: fibonacci(n), lines 7-16, one action per step of fib_memo.    *)
(***************************************************************************)
\* a slip in the seed: memo = {0: 1, 1: 1}
memo0_seed_one == (0 :> 1) @@ (1 :> 1)

\* line 9
memo0 == (0 :> 0) @@ (1 :> 1)

Frame(k) == [n |-> k, at |-> "check", a |-> None]

\* line 16 reached from the caller: a fresh memo, then the call fib_memo(k)
FibonacciEnter(k) ==
    /\ fpc = "idle"
    /\ fpc' = "run"
    /\ memo' = memo0
    /\ stack' = <<Frame(k)>>
    /\ retval' = None

\* fibonacci(k) has returned to line 16
FibonacciReturned == fpc = "ret" /\ stack = <<>>

\* lines 12, 14: the key is in memo, the frame returns memo[n]
FibMemoHit ==
    /\ fpc = "run"
    /\ Last(stack).at = "check"
    /\ Last(stack).n \in DOMAIN memo
    /\ retval' = memo[Last(stack).n]
    /\ stack' = Pop(stack)
    /\ fpc' = "ret"
    /\ UNCHANGED <<memo, prog, pc, n, i, out, result, calcVars, parseVars>>

\* lines 12-13: the key is not in memo, the frame calls fib_memo(n-1)
FibMemoMiss ==
    /\ fpc = "run"
    /\ Last(stack).at = "check"
    /\ Last(stack).n \notin DOMAIN memo
    /\ Len(stack) < MaxDepth
    /\ stack' = Append([stack EXCEPT ![Len(stack)].at = "call1"], Frame(Last(stack).n - 1))
    /\ UNCHANGED <<fpc, memo, retval, prog, pc, n, i, out, result, calcVars, parseVars>>

\* line 13: fib_memo(n-1) returned, the frame keeps it and calls fib_memo(n-2)
FibMemoSecondCall ==
    /\ fpc = "ret"
    /\ stack # <<>>
    /\ Last(stack).at = "call1"
    /\ stack' = Append([stack EXCEPT ![Len(stack)].at = "call2", ![Len(stack)].a = retval],
                       Frame(Last(stack).n - 2))
    /\ fpc' = "run"
    /\ UNCHANGED <<memo, retval, prog, pc, n, i, out, result, calcVars, parseVars>>

\* a slip: `return fib_memo(n-1) + fib_memo(n-2)' with the store into memo[n] forgotten
FibMemoStore_forgets ==
    /\ fpc = "ret"
    /\ stack # <<>>
    /\ Last(stack).at = "call2"
    /\ retval' = Last(stack).a + retval
    /\ stack' = Pop(stack)
    /\ UNCHANGED <<fpc, memo, prog, pc, n, i, out, result, calcVars, parseVars>>

\* lines 13-14: fib_memo(n-2) returned, the sum is stored in memo[n] and returned
FibMemoStore ==
    /\ fpc = "ret"
    /\ stack # <<>>
    /\ Last(stack).at = "call2"
    /\ memo' = (Last(stack).n :> (Last(stack).a + retval)) @@ memo
    /\ retval' = memo'[Last(stack).n]
    /\ stack' = Pop(stack)
    /\ UNCHANGED <<fpc, prog, pc, n, i, out, result, calcVars, parseVars>>

(***************************************************************************)
(* A direct call fibonacci(n).                                             *)
(***************************************************************************)
FibonacciCall ==
    /\ prog = "fibonacci"
    /\ pc = "call"
    /\ FibonacciEnter(n)
    /\ pc' = "wait"
    /\ UNCHANGED <<prog, n, i, out, result, calcVars, parseVars>>

FibonacciDone ==
    /\ prog = "fibonacci"
    /\ pc = "wait"
    /\ FibonacciReturned
    /\ result' = PyInt(retval)
    /\ fpc' = "idle"
    /\ pc' = "done"
    /\ UNCHANGED <<memo, stack, retval, prog, n, i, out, calcVars, parseVars>>

(***************************************************************************)
(* valid.py: is_prime(num), lines 18-25.                                   *)
(***************************************************************************)
\* int(num**0.5) for num >= 0: the integer part of the square root
IntSqrt(num) == CHOOSE r \in 0..num : r * r <= num /\ (r + 1) * (r + 1) > num

\* lines 22-25: for i in range(k, stop): if num % i == 0: return False; then return True
RECURSIVE is_prime_loop(_, _, _)
is_prime_loop(num, k, stop) ==
    IF k >= stop THEN TRUE
    ELSE IF num % k = 0 THEN FALSE
    ELSE is_prime_loop(num, k + 1, stop)

\* a slip: range(2, int(num**0.5)), the + 1 forgotten
is_prime_short_range(num) ==
    IF num < 2 THEN FALSE
    ELSE is_prime_loop(num, 2, IntSqrt(num))

is_prime(num) ==
    IF num < 2 THEN FALSE
    ELSE is_prime_loop(num, 2, IntSqrt(num) + 1)

(***************************************************************************)
(* test.py: calculate_fibonacci(n), lines 7-12, and is_prime, lines 16-23. *)
(***************************************************************************)
\* a slip in the base case: `if n < 1'
RECURSIVE calculate_fibonacci_base(_)
calculate_fibonacci_base(k) ==
    IF k < 1 THEN k
    ELSE calculate_fibonacci_base(k - 1) + calculate_fibonacci_base(k - 2)

RECURSIVE calculate_fibonacci(_)
calculate_fibonacci(k) ==
    IF k <= 1 THEN k
    ELSE calculate_fibonacci(k - 1) + calculate_fibonacci(k - 2)

RECURSIVE test_is_prime_loop(_, _, _)
test_is_prime_loop(num, k, stop) ==
    IF k >= stop THEN TRUE
    ELSE IF num % k = 0 THEN FALSE
    ELSE test_is_prime_loop(num, k + 1, stop)

test_is_prime(num) ==
    IF num < 2 THEN FALSE
    ELSE test_is_prime_loop(num, 2, IntSqrt(num) + 1)

(***************************************************************************)
(* Direct calls of the pure functions.                                     *)
(***************************************************************************)
CalculateFibonacciCall ==
    /\ prog = "calculate_fibonacci"
    /\ pc = "call"
    /\ result' = PyInt(calculate_fibonacci(n))
    /\ pc' = "done"
    /\ UNCHANGED <<prog, n, i, out, fibVars, calcVars, parseVars>>

IsPrimeCall ==
    /\ prog = "valid.is_prime"
    /\ pc = "call"
    /\ result' = PyBool(is_prime(n))
    /\ pc' = "done"
    /\ UNCHANGED <<prog, n, i, out, fibVars, calcVars, parseVars>>

TestIsPrimeCall ==
    /\ prog = "test.is_prime"
    /\ pc = "call"
    /\ result' = PyBool(test_is_prime(n))
    /\ pc' = "done"
    /\ UNCHANGED <<prog, n, i, out, fibVars, calcVars, parseVars>>

(***************************************************************************)
(* valid.py: the main block, lines 27-36.                                  *)
(***************************************************************************)
\* line 29: range(10)
FibLines == 10
\* line 33: range(20)
PrimeRange == 20

\* line 28
ValidHeader ==
    /\ prog = "valid.py"
    /\ pc = "header"
    /\ out' = Append(out, Line("Fibonacci Sequence:", <<>>))
    /\ i' = 0
    /\ pc' = "loop1"
    /\ UNCHANGED <<prog, n, result, fibVars, calcVars, parseVars>>

\* lines 29-30: the next i of range(10), and the call fibonacci(i)
ValidLoop1Call ==
    /\ prog = "valid.py"
    /\ pc = "loop1"
    /\ i < FibLines
    /\ FibonacciEnter(i)
    /\ pc' = "print1"
    /\ UNCHANGED <<prog, n, i, out, result, calcVars, parseVars>>

\* line 30: fibonacci(i) returned, the line is printed
ValidLoop1Print ==
    /\ prog = "valid.py"
    /\ pc = "print1"
    /\ FibonacciReturned
    /\ out' = Append(out, Line("fibonacci({i}) = {fibonacci(i)}", <<i, retval>>))
    /\ i' = i + 1
    /\ fpc' = "idle"
    /\ pc' = "loop1"
    /\ UNCHANGED <<prog, n, result, memo, stack, retval, calcVars, parseVars>>

\* lines 29, 32: range(10) is exhausted, the second header is printed
ValidPrimeHeader ==
    /\ prog = "valid.py"
    /\ pc = "loop1"
    /\ i >= FibLines
    /\ out' = Append(out, Line("\nPrime Fibonacci Numbers:", <<>>))
    /\ i' = 0
    /\ pc' = "loop2"
    /\ UNCHANGED <<prog, n, result, fibVars, calcVars, parseVars>>

\* lines 33-34: the next i of range(20), and the call fibonacci(i)
ValidLoop2Call ==
    /\ prog = "valid.py"
    /\ pc = "loop2"
    /\ i < PrimeRange
    /\ FibonacciEnter(i)
    /\ pc' = "test2"
    /\ UNCHANGED <<prog, n, i, out, result, calcVars, parseVars>>

\* a slip: the line is printed for every i, the test of line 35 forgotten
ValidLoop2Print_untested ==
    /\ prog = "valid.py"
    /\ pc = "test2"
    /\ FibonacciReturned
    /\ out' = Append(out, Line("fibonacci({i}) = {fib} is prime", <<i, retval>>))
    /\ i' = i + 1
    /\ fpc' = "idle"
    /\ pc' = "loop2"
    /\ UNCHANGED <<prog, n, result, memo, stack, retval, calcVars, parseVars>>

\* lines 34-36: fib = fibonacci(i); the line is printed when is_prime(fib)
ValidLoop2Print ==
    /\ prog = "valid.py"
    /\ pc = "test2"
    /\ FibonacciReturned
    /\ out' = IF is_prime(retval)
              THEN Append(out, Line("fibonacci({i}) = {fib} is prime", <<i, retval>>))
              ELSE out
    /\ i' = i + 1
    /\ fpc' = "idle"
    /\ pc' = "loop2"
    /\ UNCHANGED <<prog, n, result, memo, stack, retval, calcVars, parseVars>>

\* line 33: range(20) is exhausted, the script ends
ValidExit ==
    /\ prog = "valid.py"
    /\ pc = "loop2"
    /\ i >= PrimeRange
    /\ pc' = "done"
    /\ UNCHANGED <<prog, n, i, out, result, fibVars, calcVars, parseVars>>

(***************************************************************************)
(* test.py: the parser's view of the file, then the main block, 25-34.     *)
(***************************************************************************)
\* the bracket tokens of test.py outside string literals and comments, in file
\* order, each with its line
TestPyBrackets ==
    << <<7, "(">>, <<7, ")">>,
       <<12, "(">>, <<12, ")">>, <<12, "(">>, <<12, ")">>,
       <<16, "(">>, <<16, ")">>,
       <<20, "(">>, <<20, "(">>, <<20, ")">>, <<20, ")">>,
       <<27, "(">>, <<27, ")">>,
       <<28, "(">>, <<28, ")">>,
       <<29, "(">>, <<29, ")">>,
       <<31, "(">>, <<31, ")">>,
       <<32, "(">>, <<32, ")">>,
       <<33, "(">>, <<33, ")">>,
       <<34, "(">>, <<34, ")">> >>

\* the parser reads one bracket: a closing one with none open is a syntax error
TestParseBracket ==
    /\ prog = "test.py"
    /\ pc = "parse"
    /\ pos <= Len(TestPyBrackets)
    /\ LET ch == TestPyBrackets[pos][2] IN
         /\ depth' = IF ch = "(" THEN depth + 1 ELSE IF depth > 0 THEN depth - 1 ELSE depth
         /\ pc' = IF ch = ")" /\ depth = 0 THEN "SyntaxError" ELSE "parse"
    /\ pos' = pos + 1
    /\ UNCHANGED <<prog, n, i, out, result, fibVars, calcVars>>

\* end of file: a bracket still open is a syntax error, otherwise the module runs
TestParseEnd ==
    /\ prog = "test.py"
    /\ pc = "parse"
    /\ pos > Len(TestPyBrackets)
    /\ pc' = IF depth = 0 THEN "header" ELSE "SyntaxError"
    /\ UNCHANGED <<prog, n, i, out, result, fibVars, calcVars, parseVars>>

\* line 28: range(10)
TestFibLines == 10
\* line 32: range(20)
TestPrimeRange == 20

\* line 27
TestHeader ==
    /\ prog = "test.py"
    /\ pc = "header"
    /\ out' = Append(out, Line("Testing fibonacci calculation:", <<>>))
    /\ i' = 0
    /\ pc' = "loop1"
    /\ UNCHANGED <<prog, n, result, fibVars, calcVars, parseVars>>

\* lines 28-29
TestLoop1 ==
    /\ prog = "test.py"
    /\ pc = "loop1"
    /\ i < TestFibLines
    /\ out' = Append(out, Line("Fibonacci({i}) = {calculate_fibonacci(i)}",
                               <<i, calculate_fibonacci(i)>>))
    /\ i' = i + 1
    /\ UNCHANGED <<prog, pc, n, result, fibVars, calcVars, parseVars>>

\* lines 28, 31
TestPrimeHeader ==
    /\ prog = "test.py"
    /\ pc = "loop1"
    /\ i >= TestFibLines
    /\ out' = Append(out, Line("\nTesting prime numbers:", <<>>))
    /\ i' = 0
    /\ pc' = "loop2"
    /\ UNCHANGED <<prog, n, result, fibVars, calcVars, parseVars>>

\* lines 32-34
TestLoop2 ==
    /\ prog = "test.py"
    /\ pc = "loop2"
    /\ i < TestPrimeRange
    /\ out' = IF test_is_prime(i) THEN Append(out, Line("{i} is prime", <<i>>)) ELSE out
    /\ i' = i + 1
    /\ UNCHANGED <<prog, pc, n, result, fibVars, calcVars, parseVars>>

\* line 32: range(20) is exhausted
TestExit ==
    /\ prog = "test.py"
    /\ pc = "loop2"
    /\ i >= TestPrimeRange
    /\ pc' = "done"
    /\ UNCHANGED <<prog, n, i, out, result, fibVars, calcVars, parseVars>>

(***************************************************************************)
(* calculator.py: class Calculator, lines 10-56.                           *)
(***************************************************************************)
Operands == -MaxArg..MaxArg

\* a slip: self.history.insert(0, result)
add_prepends(a, b) ==
    /\ prog = "Calculator"
    /\ Len(returned) < MaxCalls
    /\ LET res == a + b IN
         /\ history' = <<res>> \o history
         /\ result' = PyInt(res)
         /\ returned' = Append(returned, PyInt(res))
    /\ arg' = <<a, b>>
    /\ lastOp' = "add"
    /\ queries' = 0
    /\ UNCHANGED <<prog, pc, n, i, out, fibVars, parseVars>>

\* lines 17-30
add(a, b) ==
    /\ prog = "Calculator"
    /\ Len(returned) < MaxCalls
    /\ LET res == a + b IN
         /\ history' = Append(history, res)
         /\ result' = PyInt(res)
         /\ returned' = Append(returned, PyInt(res))
    /\ arg' = <<a, b>>
    /\ lastOp' = "add"
    /\ queries' = 0
    /\ UNCHANGED <<prog, pc, n, i, out, fibVars, parseVars>>

\* lines 32-45
subtract(a, b) ==
    /\ prog = "Calculator"
    /\ Len(returned) < MaxCalls
    /\ LET res == a - b IN
         /\ history' = Append(history, res)
         /\ result' = PyInt(res)
         /\ returned' = Append(returned, PyInt(res))
    /\ arg' = <<a, b>>
    /\ lastOp' = "subtract"
    /\ queries' = 0
    /\ UNCHANGED <<prog, pc, n, i, out, fibVars, parseVars>>

\* a slip: return self.history[0]
get_last_result_first ==
    /\ prog = "Calculator"
    /\ queries < MaxQueries
    /\ result' = IF history = <<>> THEN None ELSE PyInt(history[1])
    /\ arg' = <<>>
    /\ lastOp' = "get_last_result"
    /\ queries' = queries + 1
    /\ UNCHANGED <<prog, pc, n, i, out, history, returned, fibVars, parseVars>>

\* a slip: return self.history.pop()
get_last_result_pops ==
    /\ prog = "Calculator"
    /\ queries < MaxQueries
    /\ result' = IF history = <<>> THEN None ELSE PyInt(history[Len(history)])
    /\ history' = IF history = <<>> THEN history ELSE Pop(history)
    /\ arg' = <<>>
    /\ lastOp' = "get_last_result"
    /\ queries' = queries + 1
    /\ UNCHANGED <<prog, pc, n, i, out, returned, fibVars, parseVars>>

\* lines 47-56
get_last_result ==
    /\ prog = "Calculator"
    /\ queries < MaxQueries
    /\ result' = IF history = <<>> THEN None ELSE PyInt(history[Len(history)])
    /\ arg' = <<>>
    /\ lastOp' = "get_last_result"
    /\ queries' = queries + 1
    /\ UNCHANGED <<prog, pc, n, i, out, history, returned, fibVars, parseVars>>

CalculatorAdd == \E a, b \in Operands : add(a, b)
CalculatorSubtract == \E a, b \in Operands : subtract(a, b)

(***************************************************************************)
(* bad_code.py: class badCalculator, lines 5-38.                           *)
(***************************************************************************)
\* the operands of the call in main, line 44
BadOperands == {5, 3}

\* lines 9-13
Add(x, y) ==
    /\ prog = "badCalculator"
    /\ Len(returned) + Len(out) < MaxCalls
    /\ LET res == x + y IN
         /\ history' = Append(history, res)
         /\ result' = PyInt(res)
         /\ returned' = Append(returned, PyInt(res))
    /\ arg' = <<x, y>>
    /\ lastOp' = "Add"
    /\ UNCHANGED <<prog, pc, n, i, out, queries, fibVars, parseVars>>

\* lines 15-25
bad_subtract(x, y) ==
    /\ prog = "badCalculator"
    /\ Len(returned) + Len(out) < MaxCalls
    /\ LET res == x - y IN
         /\ history' = Append(history, res)
         /\ result' = PyInt(res)
         /\ returned' = Append(returned, PyInt(res))
    /\ arg' = <<x, y>>
    /\ lastOp' = "subtract"
    /\ UNCHANGED <<prog, pc, n, i, out, queries, fibVars, parseVars>>

\* the characters the strings passed to process_input are made of
Chars == {"1", ".", "-", "x"}
Digits == {"1"}
DigitVal(c) == 1

Strings == UNION {[1..m -> Chars] : m \in 0..MaxStrLen}

\* the decimal number a sequence of digits writes
RECURSIVE DecVal(_)
DecVal(ds) == IF ds = <<>> THEN 0 ELSE 10 * DecVal(Pop(ds)) + DigitVal(Last(ds))

IsDigit(c) == c \in Digits

\* float(s), line 35, for strings over Chars: an optional sign, then digits with at
\* most one point and at least one digit; anything else raises ValueError
float(s) ==
    LET neg == s # <<>> /\ s[1] = "-"
        body == IF neg THEN Tail(s) ELSE s
        dots == {k \in 1..Len(body) : body[k] = "."}
        digs == SelectSeq(body, IsDigit)
        wellformed == /\ \A k \in 1..Len(body) : body[k] \in Digits \cup {"."}
                      /\ Cardinality(dots) <= 1
                      /\ digs # <<>>
        frac == IF dots = {} THEN 0 ELSE Len(body) - (CHOOSE k \in dots : TRUE)
    IN  IF wellformed
        THEN PyFloat(IF neg THEN -DecVal(digs) ELSE DecVal(digs), frac)
        ELSE Raise("ValueError")

\* a slip: no except clause, the ValueError of float() leaves the call
process_input_outcome_uncaught(value) ==
    IF value = None
    THEN [ret |-> PyInt(0), printed |-> <<>>]
    ELSE IF value.kind = "str"
    THEN [ret |-> float(value.s), printed |-> <<>>]
    ELSE [ret |-> None, printed |-> <<>>]

\* lines 31-38: what the call returns, and what it prints
process_input_outcome(value) ==
    IF value = None
    THEN [ret |-> PyInt(0), printed |-> <<>>]
    ELSE IF value.kind = "str"
    THEN LET r == float(value.s) IN
         IF r.kind = "raise"
         THEN [ret |-> None, printed |-> <<Line("Error converting value", <<>>)>>]
         ELSE [ret |-> r, printed |-> <<>>]
    ELSE [ret |-> None, printed |-> <<>>]

Inputs == {None} \cup {PyInt(v) : v \in BadOperands} \cup {PyStr(s) : s \in Strings}

\* lines 31-38
process_input(value) ==
    /\ prog = "badCalculator"
    /\ Len(returned) + Len(out) < MaxCalls
    /\ arg' = <<value>>
    /\ result' = process_input_outcome(value).ret
    /\ out' = out \o process_input_outcome(value).printed
    /\ lastOp' = "process_input"
    /\ UNCHANGED <<prog, pc, n, i, history, returned, queries, fibVars, parseVars>>

BadAdd == \E x, y \in BadOperands : Add(x, y)
BadSubtract == \E x, y \in BadOperands : bad_subtract(x, y)
BadProcessInput == \E value \in Inputs : process_input(value)

(***************************************************************************)
(* Initial states.                                                         *)
(***************************************************************************)
Idle ==
    /\ fpc = "idle" /\ memo = memo0 /\ stack = <<>> /\ retval = None
    /\ i = 0 /\ out = <<>> /\ result = None
    /\ history = <<>> /\ lastOp = "__init__" /\ arg = <<>> /\ returned = <<>> /\ queries = 0
    /\ pos = 1 /\ depth = 0

InitFibonacci ==
    /\ prog = "fibonacci"
    /\ pc = "call"
    /\ n \in -MaxNeg..MaxN
    /\ Idle

InitCalculateFibonacci ==
    /\ prog = "calculate_fibonacci"
    /\ pc = "call"
    /\ n \in -MaxNeg..MaxN
    /\ Idle

InitIsPrime ==
    /\ prog \in {"valid.is_prime", "test.is_prime"}
    /\ pc = "call"
    /\ n \in -MaxNum..MaxNum
    /\ Idle

InitValid ==
    /\ prog = "valid.py"
    /\ pc = "header"
    /\ n = 0
    /\ Idle

InitTest ==
    /\ prog = "test.py"
    /\ pc = "parse"
    /\ n = 0
    /\ Idle

\* calculator.py lines 13-15
InitCalculator ==
    /\ prog = "Calculator"
    /\ pc = "object"
    /\ n = 0
    /\ Idle

\* bad_code.py lines 6-7
InitBadCalculator ==
    /\ prog = "badCalculator"
    /\ pc = "object"
    /\ n = 0
    /\ Idle

Init ==
    \/ InitFibonacci
    \/ InitCalculateFibonacci
    \/ InitIsPrime
    \/ InitValid
    \/ InitTest
    \/ InitCalculator
    \/ InitBadCalculator

FibNext ==
    \/ FibMemoHit \/ FibMemoMiss \/ FibMemoSecondCall \/ FibMemoStore
    \/ FibonacciCall \/ FibonacciDone

Next ==
    \/ FibNext
    \/ CalculateFibonacciCall \/ IsPrimeCall \/ TestIsPrimeCall
    \/ ValidHeader \/ ValidLoop1Call \/ ValidLoop1Print \/ ValidPrimeHeader
    \/ ValidLoop2Call \/ ValidLoop2Print \/ ValidExit
    \/ TestParseBracket \/ TestParseEnd
    \/ TestHeader \/ TestLoop1 \/ TestPrimeHeader \/ TestLoop2 \/ TestExit
    \/ CalculatorAdd \/ CalculatorSubtract \/ get_last_result
    \/ BadAdd \/ BadSubtract \/ BadProcessInput

Spec == Init /\ [][Next]_vars

\* a sequential script takes its next step: the interpreter does not stop by itself
FibSpec == InitFibonacci /\ [][FibNext]_vars /\ WF_vars(FibNext)

(***************************************************************************)
(* The properties checked.                                                 *)
(***************************************************************************)
\* the n-th Fibonacci number: F(0) = 0, F(1) = 1, F(k) = F(k-1) + F(k-2)
RECURSIVE F(_)
F(k) == IF k = 0 THEN 0 ELSE IF k = 1 THEN 1 ELSE F(k - 1) + F(k - 2)

\* the same number, computed by iteration
RECURSIVE FibIter(_, _, _)
FibIter(k, a, b) == IF k = 0 THEN a ELSE FibIter(k - 1, b, a + b)

IsPrefix(s, t) == Len(s) <= Len(t) /\ s = SubSeq(t, 1, Len(s))

\* C1: for every n >= 0 the call fibonacci(n) does not get stuck before it returns, and
\* the value it returns is F(n); fibonacci(0) = 0, fibonacci(1) = 1, fibonacci(10) = 55.
C1_FibonacciReturnsF ==
    prog = "fibonacci" =>
        /\ n >= 0 => (pc = "done" \/ ENABLED FibNext)
        /\ pc = "done" =>
             /\ n >= 0
             /\ result = PyInt(F(n))
             /\ n = 0 => result = PyInt(0)
             /\ n = 1 => result = PyInt(1)
             /\ n = 10 => result = PyInt(55)

C1_Witness == prog = "fibonacci" /\ pc = "done" /\ n = 10 /\ result = PyInt(55)

\* C2: both copies of is_prime return True exactly when num >= 2 and no d with
\* 2 <= d < num divides num, and False otherwise; is_prime(1) = False, is_prime(2) = True.
C2_IsPrimeExact ==
    (prog \in {"valid.is_prime", "test.is_prime"} /\ pc = "done") =>
        /\ result = PyBool(n >= 2 /\ \A d \in 2..(n - 1) : n % d # 0)
        /\ n < 2 => result = PyBool(FALSE)
        /\ n = 2 => result = PyBool(TRUE)

C2_Witness ==
    /\ prog = "test.is_prime" /\ pc = "done" /\ n = 25
    /\ result = PyBool(FALSE)

\* C3: test.py fails to parse because a closing parenthesis is missing, so its main
\* block never executes and nothing is printed.
C3_TestPyNeverRuns ==
    prog = "test.py" =>
        /\ pc \in {"parse", "SyntaxError"}
        /\ out = <<>>
        /\ (pc = "parse" /\ pos > Len(TestPyBrackets)) => depth > 0

\* C4: get_last_result() returns None exactly when no add or subtract call was made
\* on the instance, and otherwise the value the most recent add or subtract returned.
C4_LastResult ==
    (prog = "Calculator" /\ lastOp = "get_last_result") =>
        /\ result = None <=> returned = <<>>
        /\ returned # <<>> => result = Last(returned)

C4_Witness ==
    /\ prog = "Calculator" /\ lastOp = "get_last_result"
    /\ Len(returned) = 2 /\ returned[1] # returned[2]
    /\ result = returned[2]

\* C5: history is empty on construction, and is the log of the values returned: its
\* length is the number of add/subtract calls and its i-th element the i-th value returned
C5_HistoryIsLog ==
    prog = "Calculator" =>
        /\ lastOp = "__init__" => history = <<>>
        /\ Len(history) = Len(returned)
        /\ \A k \in 1..Len(history) : PyInt(history[k]) = returned[k]

\* C5: a call add(a, b) (subtract(a, b)) returns a + b (a - b) and appends exactly that
\* value to history, leaving the earlier elements as they were
C5_CallAppends ==
    (prog = "Calculator" /\ lastOp' \in {"add", "subtract"}) =>
        LET r == IF lastOp' = "add" THEN arg'[1] + arg'[2] ELSE arg'[1] - arg'[2] IN
          /\ result' = PyInt(r)
          /\ history' = Append(history, r)

\* C5: Calculator.history is an append-only log of the results (both parts above)
C5_AppendOnlyLog == []C5_HistoryIsLog /\ [][C5_CallAppends]_vars

C5_Witness ==
    /\ prog = "Calculator" /\ lastOp = "subtract" /\ arg = <<-1, 1>>
    /\ history = <<2, -2>>

\* C6: process_input(value) never raises: it returns 0 for None, the converted number
\* for a string float() converts, and None after printing the error line for a string
\* float() rejects; history is left as it was for every input.
C6_ProcessInputStep ==
    (prog = "badCalculator" /\ lastOp' = "process_input") =>
        LET value == arg'[1] IN
          /\ history' = history
          /\ result'.kind # "raise"
          /\ value = None => (result' = PyInt(0) /\ out' = out)
          /\ (value.kind = "str" /\ float(value.s).kind = "float") =>
                (result' = float(value.s) /\ out' = out)
          /\ (value.kind = "str" /\ float(value.s).kind = "raise") =>
                (result' = None /\ out' = Append(out, Line("Error converting value", <<>>)))

C6_ProcessInput == [][C6_ProcessInputStep]_vars

C6_Witness ==
    /\ prog = "badCalculator" /\ lastOp = "process_input"
    /\ arg = <<PyStr(<<"1", "x">>)>>
    /\ result = None
    /\ out = <<Line("Error converting value", <<>>)>>
    /\ history = <<8>>

\* the i for which valid.py reports fibonacci(i) as prime
PrimeIndexes == <<3, 4, 5, 7, 11, 13, 17>>

\* what valid.py prints, in order
ValidOutput ==
    <<Line("Fibonacci Sequence:", <<>>)>>
    \o [k \in 1..10 |-> Line("fibonacci({i}) = {fibonacci(i)}", <<k - 1, FibIter(k - 1, 0, 1)>>)]
    \o <<Line("\nPrime Fibonacci Numbers:", <<>>)>>
    \o [k \in 1..7 |-> Line("fibonacci({i}) = {fib} is prime",
                            <<PrimeIndexes[k], FibIter(PrimeIndexes[k], 0, 1)>>)]

\* C7: valid.py prints the header, the ten lines fibonacci(0) .. fibonacci(9), the
\* prime header, then one line for each i in {3, 4, 5, 7, 11, 13, 17} in ascending
\* order and for no other i; no prime line comes before the tenth Fibonacci line.
C7_ValidOutput ==
    prog = "valid.py" =>
        /\ IsPrefix(out, ValidOutput)
        /\ pc \in {"loop2", "test2", "done"} => Len(out) >= 12
        /\ pc \in {"header", "loop1", "print1"} => Len(out) <= 11
        /\ pc = "done" => out = ValidOutput

C7_Witness == prog = "valid.py" /\ pc = "done" /\ Len(out) = 19

\* C8: calculate_fibonacci(n) and fibonacci(n) return the same value, F(n), for every
\* n >= 0; for n < 0 calculate_fibonacci returns n and fibonacci does not return.
C8_SameValue ==
    /\ (prog = "fibonacci" /\ pc = "done") =>
          (n >= 0 /\ result = PyInt(calculate_fibonacci(n)))
    /\ (prog = "fibonacci" /\ n < 0) => pc # "done"
    /\ (prog = "calculate_fibonacci" /\ pc = "done") =>
          /\ n >= 0 => result = PyInt(FibIter(n, 0, 1))
          /\ n < 0 => result = PyInt(n)

C8_Witness ==
    /\ prog = "fibonacci" /\ pc = "done" /\ n = 12
    /\ result = PyInt(calculate_fibonacci(12))

\* C9: a store into memo adds one key k >= 2 that memo does not hold, from the values
\* stored for k-1 and k-2, and changes no other key
C9_WriteOnce ==
    memo' # memo =>
        \E k \in DOMAIN memo' \ DOMAIN memo :
            /\ k >= 2
            /\ DOMAIN memo' = DOMAIN memo \cup {k}
            /\ {k - 1, k - 2} \subseteq DOMAIN memo
            /\ memo'[k] = memo[k - 1] + memo[k - 2]
            /\ \A j \in DOMAIN memo : memo'[j] = memo[j]

\* C9: when fibonacci(n) has returned, n >= 0 and memo holds exactly the keys 0..n
\* (0 and 1 for n = 0); for n < 0 no frame's key is in memo and nothing is stored
C9_Keys ==
    /\ pc = "done" => (n >= 0 /\ DOMAIN memo = 0..(IF n < 1 THEN 1 ELSE n))
    /\ n < 0 =>
          /\ pc # "done"
          /\ memo = memo0
          /\ \A k \in 1..Len(stack) : stack[k].n <= n /\ stack[k].n \notin DOMAIN memo

\* C9: fibonacci(n) terminates for every n >= 0, writing each key of 2..n exactly once
\* from the stored values of k-1 and k-2; for n < 0 the recursion never reaches a key
\* of memo and never returns.
C9_Termination ==
    /\ [][C9_WriteOnce]_vars
    /\ []C9_Keys
    /\ (n >= 0) ~> (pc = "done")

C9_Witness == pc = "done" /\ n = 12 /\ DOMAIN memo = 0..12 /\ memo[12] = 144

\* C10: a get_last_result() call leaves history as it was, and a second call right
\* after the first returns the same value.
C10_QueryStep ==
    (prog = "Calculator" /\ lastOp' = "get_last_result") =>
        /\ history' = history
        /\ lastOp = "get_last_result" => result' = result

C10_PureQuery == [][C10_QueryStep]_vars

C10_Witness ==
    /\ prog = "Calculator" /\ lastOp = "get_last_result" /\ queries = 2
    /\ Len(history) = 2 /\ result = PyInt(history[2])
====
